---- MODULE Spec2Model ----
(***************************************************************************)
(* Model of pep440_version_utils.version: the Version class (a subclass of *)
(* packaging.version.Version) and its "next version" transitions.          *)
(*                                                                         *)
(* A Version object has two mutable attributes, _version (the named tuple  *)
(* epoch/release/pre/post/dev/local) and _key (the cached ordering key).   *)
(* Objects live in a heap (a sequence; a reference is an index), because   *)
(* the transitions copy their input and then assign to the copy's          *)
(* attributes: whether the input survives depends on object identity.      *)
(*                                                                         *)
(* Python's None is the empty tuple <<>>; an optional pair such as pre is  *)
(* <<>> or <<phase, number>>.  Both are falsy in Python, and the code      *)
(* never builds an empty tuple of its own.                                 *)
(***************************************************************************)
EXTENDS Integers, Sequences, FiniteSets, TLC

\* ---------------------------------------------------------------- bounds
\* Largest release component, pre-release number and dev number of the
\* versions the calls start from.
MaxComponent == 1
MaxPre == 1
MaxDev == 1

\* Epochs, release lengths, post numbers and local labels (tuples of numeric
\* segments) of the versions the calls start from.
Epochs == {0, 1}
ReleaseLengths == {2, 3, 4}
PostNumbers == {0}
LocalLabels == {<<0>>}

\* ------------------------------------------------------------- constants
ALPHA_SEGMENT == "a"
BETA_SEGMENT == "b"
RC_SEGMENT == "rc"
DEV_SEGMENT == "dev"

VERSION_MICRO == "micro"
VERSION_MINOR == "minor"
VERSION_MAJOR == "major"

\* A version_bump argument that is none of the three names (the tests' value).
InvalidBump == "stuff"
Bumps == {VERSION_MAJOR, VERSION_MINOR, VERSION_MICRO, InvalidBump}

None == <<>>

\* ------------------------------------------- packaging.version: the tuple
\* _Version(epoch, release, pre, post, dev, local)
VersionNamedTuple(epoch, release, pre, post, dev, local) ==
    [epoch |-> epoch, release |-> release, pre |-> pre,
     post |-> post, dev |-> dev, local |-> local]

\* itertools.dropwhile(lambda x: x == 0, reversed(release)), reversed again
RECURSIVE StripTrailingZeros(_)
StripTrailingZeros(release) ==
    IF release = <<>> THEN <<>>
    ELSE IF release[Len(release)] = 0
         THEN StripTrailingZeros(SubSeq(release, 1, Len(release) - 1))
         ELSE release

Infinity == <<"+inf", 0>>
NegativeInfinity == <<"-inf", 0>>

\* packaging.version._cmpkey
_cmpkey(epoch, release, pre, post, dev, local) ==
    LET _release == StripTrailingZeros(release)
        _pre == IF pre = None /\ post = None /\ dev # None THEN NegativeInfinity
                ELSE IF pre = None THEN Infinity
                ELSE pre
        _post == IF post = None THEN NegativeInfinity ELSE post
        _dev == IF dev = None THEN Infinity ELSE dev
        _local == IF local = None THEN NegativeInfinity
                  ELSE <<"local", local>>
    IN  <<epoch, _release, _pre, _post, _dev, _local>>

\* Python's order on strings, for the tags that occur in a key.
TagRank(tag) ==
    CASE tag = "a" -> 1
      [] tag = "b" -> 2
      [] tag = "dev" -> 3
      [] tag = "post" -> 4
      [] tag = "rc" -> 5

\* Python's order on tuples of integers: lexicographic, a proper prefix first.
RECURSIVE IntTupleLt(_, _)
IntTupleLt(s, t) ==
    IF t = <<>> THEN FALSE
    ELSE IF s = <<>> THEN TRUE
    ELSE IF s[1] # t[1] THEN s[1] < t[1]
    ELSE IntTupleLt(Tail(s), Tail(t))

\* Order of one key item that is Infinity, NegativeInfinity or a (tag, number) pair.
PairLt(x, y) ==
    IF x = y THEN FALSE
    ELSE IF x = NegativeInfinity \/ y = Infinity THEN TRUE
    ELSE IF x = Infinity \/ y = NegativeInfinity THEN FALSE
    ELSE IF x[1] # y[1] THEN TagRank(x[1]) < TagRank(y[1])
    ELSE x[2] < y[2]

\* Order of the local item: NegativeInfinity or the tuple of numeric segments.
LocalLt(x, y) ==
    IF x = y THEN FALSE
    ELSE IF x = NegativeInfinity THEN TRUE
    ELSE IF y = NegativeInfinity THEN FALSE
    ELSE IntTupleLt(x[2], y[2])

\* Version.__lt__: the keys compared as Python tuples.
KeyLt(k1, k2) ==
    IF k1[1] # k2[1] THEN k1[1] < k2[1]
    ELSE IF k1[2] # k2[2] THEN IntTupleLt(k1[2], k2[2])
    ELSE IF k1[3] # k2[3] THEN PairLt(k1[3], k2[3])
    ELSE IF k1[4] # k2[4] THEN PairLt(k1[4], k2[4])
    ELSE IF k1[5] # k2[5] THEN PairLt(k1[5], k2[5])
    ELSE LocalLt(k1[6], k2[6])

\* ------------------------------------- packaging.version: the properties
\* o is a Version object: [_version |-> ..., _key |-> ...]
epoch(o) == o._version.epoch
release(o) == o._version.release
pre(o) == o._version.pre
\* Version.post / Version.dev: the number, or None; here <<n>> or <<>>
post(o) == IF o._version.post # None THEN <<o._version.post[2]>> ELSE None
dev(o) == IF o._version.dev # None THEN <<o._version.dev[2]>> ELSE None
local(o) == o._version.local
major(o) == IF Len(release(o)) >= 1 THEN release(o)[1] ELSE 0
minor(o) == IF Len(release(o)) >= 2 THEN release(o)[2] ELSE 0
micro(o) == IF Len(release(o)) >= 3 THEN release(o)[3] ELSE 0
is_devrelease(o) == dev(o) # None

\* Renderings are sequences of tokens <<mark, number>>: "1!2.0a1.post0.dev1+0"
\* is <<"!",1>>, <<".",2>>, <<".",0>>, <<"a",1>>, <<".post",0>>, <<".dev",1>>, <<"+",0>>.
RECURSIVE Dotted(_)
Dotted(numbers) ==
    IF numbers = <<>> THEN <<>>
    ELSE <<(<<".", numbers[1]>>)>> \o Dotted(Tail(numbers))

\* The local label's parts joined by ".", after "+"
LocalTokens(parts) ==
    IF parts = <<>> THEN <<>>
    ELSE <<(<<"+", parts[1]>>)>> \o Dotted(Tail(parts))

\* packaging.version.Version.__str__
str(o) ==
    (IF epoch(o) # 0 THEN <<(<<"!", epoch(o)>>)>> ELSE <<>>)
    \o Dotted(release(o))
    \o (IF pre(o) # None THEN <<pre(o)>> ELSE <<>>)
    \o (IF post(o) # None THEN <<(<<".post", post(o)[1]>>)>> ELSE <<>>)
    \o (IF dev(o) # None THEN <<(<<".dev", dev(o)[1]>>)>> ELSE <<>>)
    \o (IF local(o) # None THEN LocalTokens(local(o)) ELSE <<>>)

\* text.split("+", 1)[0]
RECURSIVE BeforePlus(_)
BeforePlus(text) ==
    IF text = <<>> \/ text[1][1] = "+" THEN <<>>
    ELSE <<text[1]>> \o BeforePlus(Tail(text))

\* packaging.version.Version.public
public(o) == BeforePlus(str(o))

\* packaging.version.Version.base_version
base_version(o) ==
    (IF epoch(o) # 0 THEN <<(<<"!", epoch(o)>>)>> ELSE <<>>)
    \o Dotted(release(o))

RECURSIVE Numbers(_)
Numbers(tokens) ==
    IF tokens = <<>> THEN <<>>
    ELSE <<tokens[1][2]>> \o Numbers(Tail(tokens))

IsDot(token) == token[1] = "."
IsPre(token) == token[1] \in {ALPHA_SEGMENT, BETA_SEGMENT, RC_SEGMENT}
IsPost(token) == token[1] = ".post"
IsDev(token) == token[1] = ".dev"

\* packaging.version.Version.__init__ on a canonical rendering: the regular
\* expression's groups, then the key.
VersionInit(text) ==
    LET hasEpoch == text # <<>> /\ text[1][1] = "!"
        body == IF hasEpoch THEN Tail(text) ELSE text
        pub == BeforePlus(body)
        loc == SubSeq(body, Len(pub) + 1, Len(body))
        pres == SelectSeq(pub, IsPre)
        posts == SelectSeq(pub, IsPost)
        devs == SelectSeq(pub, IsDev)
        v == VersionNamedTuple(
                 IF hasEpoch THEN text[1][2] ELSE 0,
                 Numbers(SelectSeq(pub, IsDot)),
                 IF pres # <<>> THEN pres[1] ELSE None,
                 IF posts # <<>> THEN <<"post", posts[1][2]>> ELSE None,
                 IF devs # <<>> THEN <<"dev", devs[1][2]>> ELSE None,
                 IF loc # <<>> THEN Numbers(loc) ELSE None)
    IN  [_version |-> v,
         _key |-> _cmpkey(v.epoch, v.release, v.pre, v.post, v.dev, v.local)]

\* ------------------------------------------------- pep440_version_utils
\* A call's outcome: the heap after it, the returned reference (0 when it
\* raised) and whether it raised TypeError.
Returned(h, r) == [heap |-> h, ref |-> r, raised |-> FALSE]
Raised(h) == [heap |-> h, ref |-> 0, raised |-> TRUE]

\* _reset_sort_key(version): version._key = _cmpkey(...)
_reset_sort_key(h, version) ==
    LET v == h[version]._version
    IN  [h EXCEPT ![version]._key =
            _cmpkey(v.epoch, v.release, v.pre, v.post, v.dev, v.local)]

\* A variant of __copy__ that hands back the object itself.
__copy__Alias(h, self) == Returned(h, self)

\* Version.__copy__: a new object parsed from str(self), given self's tuple
\* (copy() of a named tuple is a new, equal tuple) and a fresh key.
__copy__(h, self) ==
    LET new_version == Len(h) + 1
        h1 == Append(h, VersionInit(str(h[self])))
        h2 == [h1 EXCEPT ![new_version]._version = h[self]._version]
    IN  Returned(_reset_sort_key(h2, new_version), new_version)

\* Version.is_alpha / is_beta / is_release_candidate
is_alpha(o) == pre(o) # None /\ pre(o)[1] = ALPHA_SEGMENT
is_beta(o) == pre(o) # None /\ pre(o)[1] = BETA_SEGMENT
is_release_candidate(o) == pre(o) # None /\ pre(o)[1] = RC_SEGMENT

\* A variant of is_release that compares the whole rendering, local label
\* included, with the base version.
is_release_Str(o) == str(o) = base_version(o)

\* Version.is_release
is_release(o) == public(o) = base_version(o)

\* version._version = VersionNamedTuple(...); _reset_sort_key(version);
\* return version
Assigned(h, version, tuple) ==
    Returned(_reset_sort_key([h EXCEPT ![version]._version = tuple], version),
             version)

\* A variant of next_major that always increments.
MajorOfNextMajor_Always(o) == major(o) + 1

\* next_major: the major number of the result, from the copy o
MajorOfNextMajor(o) ==
    IF ~is_release(o) /\ ~(minor(o) # 0 \/ micro(o) # 0)
    THEN major(o)
    ELSE major(o) + 1

\* next_major after version = copy(self); c is the copy's outcome
NextMajorOfCopy(c) ==
    Assigned(c.heap, c.ref,
             VersionNamedTuple(c.heap[c.ref]._version.epoch,
                               <<MajorOfNextMajor(c.heap[c.ref]), 0, 0>>,
                               None, None, None, None))

\* Version.next_major
next_major(h, self) == NextMajorOfCopy(__copy__(h, self))

\* A variant of next_minor that always increments.
MinorOfNextMinor_Always(o) == minor(o) + 1

\* next_minor: the minor number of the result, from the copy o
MinorOfNextMinor(o) ==
    IF ~is_release(o) /\ ~(micro(o) # 0)
    THEN minor(o)
    ELSE minor(o) + 1

\* next_minor after version = copy(self)
NextMinorOfCopy(c) ==
    Assigned(c.heap, c.ref,
             VersionNamedTuple(c.heap[c.ref]._version.epoch,
                               <<major(c.heap[c.ref]),
                                 MinorOfNextMinor(c.heap[c.ref]), 0>>,
                               None, None, None, None))

\* Version.next_minor
next_minor(h, self) == NextMinorOfCopy(__copy__(h, self))

\* next_micro: the micro number of the result, from the copy o
MicroOfNextMicro(o) ==
    IF ~is_release(o) /\ micro(o) > 0
    THEN micro(o)
    ELSE micro(o) + 1

\* next_micro after version = copy(self)
NextMicroOfCopy(c) ==
    Assigned(c.heap, c.ref,
             VersionNamedTuple(c.heap[c.ref]._version.epoch,
                               <<major(c.heap[c.ref]), minor(c.heap[c.ref]),
                                 MicroOfNextMicro(c.heap[c.ref])>>,
                               None, None, None, None))

\* Version.next_micro
next_micro(h, self) == NextMicroOfCopy(__copy__(h, self))

\* A variant of _build_suffixed_version that keeps post and local.
SuffixedCopy_KeepPost(c, prerelease, devrelease) ==
    Assigned(c.heap, c.ref,
             VersionNamedTuple(c.heap[c.ref]._version.epoch,
                               release(c.heap[c.ref]), prerelease,
                               c.heap[c.ref]._version.post, devrelease,
                               c.heap[c.ref]._version.local))

\* A variant of _build_suffixed_version that rebuilds the release from
\* major, minor and micro.
SuffixedCopy_Normalized(c, prerelease, devrelease) ==
    Assigned(c.heap, c.ref,
             VersionNamedTuple(c.heap[c.ref]._version.epoch,
                               <<major(c.heap[c.ref]), minor(c.heap[c.ref]),
                                 micro(c.heap[c.ref])>>,
                               prerelease, None, devrelease, None))

\* _build_suffixed_version after version = copy(version)
SuffixedCopy(c, prerelease, devrelease) ==
    Assigned(c.heap, c.ref,
             VersionNamedTuple(c.heap[c.ref]._version.epoch,
                               release(c.heap[c.ref]), prerelease,
                               None, devrelease, None))

\* _build_suffixed_version
_build_suffixed_version(h, version, prerelease, devrelease) ==
    SuffixedCopy(__copy__(h, version), prerelease, devrelease)

\* A variant of _increment_subrelease that keeps counting across segments.
_increment_subrelease_Keep(type_number_pair, segment) ==
    IF type_number_pair = None THEN <<segment, 1>>
    ELSE <<segment, type_number_pair[2] + 1>>

\* _increment_subrelease
_increment_subrelease(type_number_pair, segment) ==
    IF type_number_pair = None THEN <<segment, 1>>
    ELSE IF type_number_pair[1] = segment
         THEN <<type_number_pair[1], type_number_pair[2] + 1>>
         ELSE <<segment, 1>>

\* _increment_prerelease
_increment_prerelease(prerelease, segment) ==
    _increment_subrelease(prerelease, segment)

\* _increment_devrelease: devrelease_id is Version.dev, so 0 is falsy like None
DevTuple(devrelease_id) ==
    IF devrelease_id # None /\ devrelease_id[1] # 0
    THEN <<DEV_SEGMENT, devrelease_id[1]>>
    ELSE None

_increment_devrelease(devrelease_id) ==
    _increment_subrelease(DevTuple(devrelease_id), DEV_SEGMENT)

\* _next_release_version
_next_release_version(h, version, version_bump) ==
    IF version_bump = VERSION_MAJOR THEN next_major(h, version)
    ELSE IF version_bump = VERSION_MINOR THEN next_minor(h, version)
    ELSE IF version_bump = VERSION_MICRO THEN next_micro(h, version)
    ELSE Raised(h)

\* A variant that bumps the release of every version, final or not.
ReleaseBumped_Always(c, version_bump) ==
    _next_release_version(c.heap, c.ref, version_bump)

\* if version.is_release: version = _next_release_version(version, version_bump)
\* c is the outcome of version = copy(version)
ReleaseBumped(c, version_bump) ==
    IF is_release(c.heap[c.ref])
    THEN _next_release_version(c.heap, c.ref, version_bump)
    ELSE c

\* A variant that advances the pre-release number of a dev release too.
PrereleaseOfNextDev_Advance(o) ==
    IF pre(o) # None
    THEN _increment_prerelease(pre(o), pre(o)[1])
    ELSE None

\* _next_devrelease_version: the prerelease of the result, from version o
PrereleaseOfNextDev(o) ==
    IF pre(o) # None
    THEN IF is_devrelease(o) THEN pre(o)
         ELSE _increment_prerelease(pre(o), pre(o)[1])
    ELSE None

\* _next_devrelease_version after the release bump, whose outcome is b
DevSuffixed(b) ==
    IF b.raised THEN b
    ELSE _build_suffixed_version(b.heap, b.ref,
                                 PrereleaseOfNextDev(b.heap[b.ref]),
                                 _increment_devrelease(dev(b.heap[b.ref])))

\* _next_devrelease_version
_next_devrelease_version(h, version, version_bump) ==
    DevSuffixed(ReleaseBumped(__copy__(h, version), version_bump))

\* _next_prerelease_version after the release bump, whose outcome is b
PreSuffixed(b, segment) ==
    IF b.raised THEN b
    ELSE _build_suffixed_version(b.heap, b.ref,
                                 _increment_prerelease(pre(b.heap[b.ref]),
                                                       segment),
                                 None)

\* _next_prerelease_version
_next_prerelease_version(h, version, version_bump, segment) ==
    PreSuffixed(ReleaseBumped(__copy__(h, version), version_bump), segment)

\* Version.next_dev / next_alpha / next_beta / next_release_candidate
next_dev(h, self, version_bump) ==
    _next_devrelease_version(h, self, version_bump)
next_alpha(h, self, version_bump) ==
    _next_prerelease_version(h, self, version_bump, ALPHA_SEGMENT)
next_beta(h, self, version_bump) ==
    _next_prerelease_version(h, self, version_bump, BETA_SEGMENT)
next_release_candidate(h, self, version_bump) ==
    _next_prerelease_version(h, self, version_bump, RC_SEGMENT)

\* ------------------------------------------------------------ the program
\* heap: the live Version objects; self: the object the last call was made
\* on; result: the object it returned (0: none); before: what self was when
\* the call started; method, version_bump: the call; raised: it raised
\* TypeError; answer: what a property read returned; derived: self was
\* returned by a transition; origin: whether the version the caller
\* constructed at the start carried a post-release or a local label.
ValidBumps == {VERSION_MAJOR, VERSION_MINOR, VERSION_MICRO}
BumpMethods == {"next_dev", "next_alpha", "next_beta", "next_release_candidate"}

\* The version has a pre, post or dev segment.
HasSuffix(o) ==
    o._version.pre # None \/ o._version.post # None \/ o._version.dev # None

\* The named tuple a call returns, or None when it raises.
TupleOf(out) == IF out.raised THEN None ELSE out.heap[out.ref]._version

\* What next_major, next_minor or next_micro, as b names it, returns on o.
TupleOfNext(o, b) ==
    CASE b = VERSION_MAJOR -> TupleOf(next_major(<<o>>, 1))
      [] b = VERSION_MINOR -> TupleOf(next_minor(<<o>>, 1))
      [] b = VERSION_MICRO -> TupleOf(next_micro(<<o>>, 1))

\* The method a version_bump names.
NextOf(b) ==
    CASE b = VERSION_MAJOR -> "next_major"
      [] b = VERSION_MINOR -> "next_minor"
      [] b = VERSION_MICRO -> "next_micro"

VARIABLES heap, self, result, before, method, version_bump, raised, answer,
          derived, origin, cycle

vars == <<heap, self, result, before, method, version_bump, raised, answer,
          derived, origin, cycle>>

\* cycle records the pre-release or dev cycle the caller is in: the
\* version_bump it was started with on a version without pre, post or dev
\* segment, the named tuple the method that version_bump names returned on
\* that version, and whether one call or more made the cycle so far.
NoCycle == [bump |-> "none", final |-> None, steps |-> 0]

\* cycle after the method named name, called with bump on o, returned.
CycleAfter(name, bump, o) ==
    IF name \notin BumpMethods THEN cycle
    ELSE IF ~HasSuffix(o) /\ bump \in ValidBumps
         THEN [bump |-> bump, final |-> TupleOfNext(o, bump), steps |-> 1]
    ELSE IF cycle.bump # "none" THEN [cycle EXCEPT !.steps = 2]
    ELSE cycle

Transitions == {"next_major", "next_minor", "next_micro", "next_dev",
                "next_alpha", "next_beta", "next_release_candidate"}

Releases == UNION {[1..len -> 0..MaxComponent] : len \in ReleaseLengths}
Optional(values) == {None} \cup values

\* The versions a caller can construct within the bounds: Version(text).
Constructible ==
    {VersionInit(str([_version |-> VersionNamedTuple(e, r, p, po, d, l)])) :
        e \in Epochs,
        r \in Releases,
        p \in Optional({ALPHA_SEGMENT, BETA_SEGMENT, RC_SEGMENT} \X (1..MaxPre)),
        po \in Optional({"post"} \X PostNumbers),
        d \in Optional({DEV_SEGMENT} \X (0..MaxDev)),
        l \in Optional(LocalLabels)}

Init ==
    /\ heap \in {<<o>> : o \in Constructible}
    /\ self = 1
    /\ result = 0
    /\ before = heap[1]
    /\ method = "Version"
    /\ version_bump = "none"
    /\ raised = FALSE
    /\ answer = FALSE
    /\ derived = FALSE
    /\ origin = IF post(heap[1]) # None \/ local(heap[1]) # None
                THEN "post_or_local"
                ELSE "plain"
    /\ cycle = NoCycle

\* The calls start from versions within the bounds.
InBounds(o) ==
    /\ \A i \in 1..Len(release(o)) : release(o)[i] <= MaxComponent
    /\ pre(o) # None => pre(o)[2] <= MaxPre
    /\ dev(o) # None => dev(o)[1] <= MaxDev

\* No call is pending on the receiver, heap[self].
Idle == result = 0 /\ method = "Version" /\ InBounds(heap[self])

\* A call made and returned: only the receiver and the result stay alive.
Call(name, bump, out) ==
    /\ heap' = IF out.raised \/ out.ref = self THEN <<out.heap[self]>>
               ELSE <<out.heap[self], out.heap[out.ref]>>
    /\ result' = IF out.raised THEN 0 ELSE IF out.ref = self THEN self ELSE 2
    /\ before' = heap[self]
    /\ method' = name
    /\ version_bump' = bump
    /\ raised' = out.raised
    /\ cycle' = IF out.raised THEN cycle ELSE CycleAfter(name, bump, heap[self])
    /\ UNCHANGED <<self, answer, derived, origin>>

Copy ==
    /\ Idle
    /\ \E out \in {__copy__(heap, self)} : Call("copy", "none", out)

NextMajor ==
    /\ Idle
    /\ \E out \in {next_major(heap, self)} : Call("next_major", "none", out)

NextMinor ==
    /\ Idle
    /\ \E out \in {next_minor(heap, self)} : Call("next_minor", "none", out)

NextMicro ==
    /\ Idle
    /\ \E out \in {next_micro(heap, self)} : Call("next_micro", "none", out)

NextDev ==
    /\ Idle
    /\ \E b \in Bumps :
          \E out \in {next_dev(heap, self, b)} : Call("next_dev", b, out)

NextAlpha ==
    /\ Idle
    /\ \E b \in Bumps :
          \E out \in {next_alpha(heap, self, b)} : Call("next_alpha", b, out)

NextBeta ==
    /\ Idle
    /\ \E b \in Bumps :
          \E out \in {next_beta(heap, self, b)} : Call("next_beta", b, out)

NextReleaseCandidate ==
    /\ Idle
    /\ \E b \in Bumps :
          \E out \in {next_release_candidate(heap, self, b)} :
              Call("next_release_candidate", b, out)

\* A property of the receiver read.
Read(name, value) ==
    /\ Idle
    /\ method' = name
    /\ answer' = value
    /\ before' = heap[self]
    /\ UNCHANGED <<heap, self, result, version_bump, raised, derived, origin,
                 cycle>>

IsAlpha == Read("is_alpha", is_alpha(heap[self]))
IsBeta == Read("is_beta", is_beta(heap[self]))
IsReleaseCandidate ==
    Read("is_release_candidate", is_release_candidate(heap[self]))
IsRelease == Read("is_release", is_release(heap[self]))

\* The caller goes on with the version the call returned (with the receiver
\* when the call raised or was a property read); the other object is dropped.
Continue ==
    /\ method # "Version"
    /\ heap' = IF result = 0 THEN <<heap[self]>> ELSE <<heap[result]>>
    /\ result' = 0
    /\ before' = heap'[1]
    /\ method' = "Version"
    /\ version_bump' = "none"
    /\ raised' = FALSE
    /\ answer' = FALSE
    /\ derived' = IF method \in Transitions /\ result # 0 THEN TRUE ELSE derived
    /\ cycle' = IF method \in {"next_major", "next_minor", "next_micro"}
                THEN NoCycle
                ELSE cycle
    /\ UNCHANGED <<self, origin>>

Next ==
    \/ Copy
    \/ NextMajor
    \/ NextMinor
    \/ NextMicro
    \/ NextDev
    \/ NextAlpha
    \/ NextBeta
    \/ NextReleaseCandidate
    \/ IsAlpha
    \/ IsBeta
    \/ IsReleaseCandidate
    \/ IsRelease
    \/ Continue

Spec == Init /\ [][Next]_vars

\* ------------------------------------------------------------- the claims
PreMethods == {"next_alpha", "next_beta", "next_release_candidate"}

\* A transition was called and returned a version, heap[result].
Transitioned == method \in Transitions /\ result # 0

\* The segment next_alpha / next_beta / next_release_candidate asks for.
SegmentOf(name) ==
    CASE name = "next_alpha" -> ALPHA_SEGMENT
      [] name = "next_beta" -> BETA_SEGMENT
      [] name = "next_release_candidate" -> RC_SEGMENT

\* C1: every transition that returns, returns a version greater than the one
\* it was called on, in the order of the keys.
C1_Monotonic ==
    Transitioned => KeyLt(before._key, heap[result]._key)

\* C2: next_alpha, next_beta, next_release_candidate and next_dev called with
\* a version_bump that is none of major, minor, micro raise, and leave the
\* version they were called on as it was.
C2_InvalidBumpRaises ==
    (method \in BumpMethods /\ version_bump = InvalidBump)
        => raised /\ heap[self] = before

\* C3: called on a version with pre = (p, n) and a dev segment, the
\* prerelease method of the same phase p returns the same release with
\* pre = (p, n) and no dev.
C3_DevThenPromote ==
    (/\ method \in PreMethods
     /\ version_bump \in ValidBumps
     /\ before._version.pre # None
     /\ before._version.dev # None
     /\ before._version.pre[1] = SegmentOf(method))
        => /\ result # 0
           /\ heap[result]._version.release = before._version.release
           /\ heap[result]._version.pre = before._version.pre
           /\ heap[result]._version.dev = None

\* The named tuple of a final release.
Final(epoch_, release_) ==
    VersionNamedTuple(epoch_, release_, None, None, None, None)

\* C4: next_major, next_minor and next_micro return the epoch of the version
\* they were called on, no pre, post, dev or local, and the release
\* (M, 0, 0), (major, m, 0), (major, minor, u): M is major when the version
\* has a pre, post or dev segment and minor = micro = 0, else major + 1; m is
\* minor when it has such a segment and micro = 0, else minor + 1; u is micro
\* when it has such a segment and micro > 0, else micro + 1.
C4_ReleaseBump ==
    /\ method = "next_major" =>
          /\ result # 0
          /\ heap[result]._version =
                Final(before._version.epoch,
                      <<IF HasSuffix(before) /\ minor(before) = 0
                                             /\ micro(before) = 0
                        THEN major(before) ELSE major(before) + 1, 0, 0>>)
    /\ method = "next_minor" =>
          /\ result # 0
          /\ heap[result]._version =
                Final(before._version.epoch,
                      <<major(before),
                        IF HasSuffix(before) /\ micro(before) = 0
                        THEN minor(before) ELSE minor(before) + 1, 0>>)
    /\ method = "next_micro" =>
          /\ result # 0
          /\ heap[result]._version =
                Final(before._version.epoch,
                      <<major(before), minor(before),
                        IF HasSuffix(before) /\ micro(before) > 0
                        THEN micro(before) ELSE micro(before) + 1>>)

\* next_minor called on a pre-release of x.y.0: the minor number stays.
C4_Witness ==
    /\ method = "next_minor"
    /\ before._version.pre # None
    /\ micro(before) = 0
    /\ result # 0
    /\ heap[result]._version.release = <<major(before), minor(before), 0>>

\* C5: next_dev with a valid version_bump returns dev 1 when the version has
\* no dev and its dev number + 1 when it has; pre absent when the version has
\* no pre, the same pre when it has pre and dev, (phase, number + 1) when it
\* has pre and no dev; and no post and no local.
C5_NextDev ==
    (method = "next_dev" /\ version_bump \in ValidBumps) =>
        /\ result # 0
        /\ heap[result]._version.dev =
              <<DEV_SEGMENT, IF before._version.dev = None THEN 1
                             ELSE before._version.dev[2] + 1>>
        /\ heap[result]._version.pre =
              IF before._version.pre = None THEN None
              ELSE IF before._version.dev # None THEN before._version.pre
              ELSE <<before._version.pre[1], before._version.pre[2] + 1>>
        /\ heap[result]._version.post = None
        /\ heap[result]._version.local = None

\* next_dev called on a dev release of a pre-release: only dev advances.
C5_Witness ==
    /\ method = "next_dev"
    /\ version_bump \in ValidBumps
    /\ before._version.pre # None
    /\ before._version.dev # None
    /\ result # 0
    /\ heap[result]._version.pre = before._version.pre
    /\ heap[result]._version.dev[2] = before._version.dev[2] + 1

\* C6: next_alpha, next_beta, next_release_candidate with target phase t and
\* a valid version_bump return no dev, and pre (t, 1) when the version has no
\* pre; when it has pre (p, n) and no dev, (t, n + 1) if t = p and (t, 1)
\* otherwise; when it has pre (p, n) and dev and t # p, (t, 1).
C6_PrereleasePhase ==
    (method \in PreMethods /\ version_bump \in ValidBumps) =>
        /\ result # 0
        /\ heap[result]._version.dev = None
        /\ before._version.pre = None =>
              heap[result]._version.pre = <<SegmentOf(method), 1>>
        /\ (before._version.pre # None /\ before._version.dev = None) =>
              heap[result]._version.pre =
                 IF SegmentOf(method) = before._version.pre[1]
                 THEN <<SegmentOf(method), before._version.pre[2] + 1>>
                 ELSE <<SegmentOf(method), 1>>
        /\ (/\ before._version.pre # None
            /\ before._version.dev # None
            /\ SegmentOf(method) # before._version.pre[1]) =>
              heap[result]._version.pre = <<SegmentOf(method), 1>>

\* next_beta called on an alpha: the numbering restarts at b1.
C6_Witness ==
    /\ method = "next_beta"
    /\ version_bump \in ValidBumps
    /\ before._version.pre = <<ALPHA_SEGMENT, 1>>
    /\ before._version.dev = None
    /\ result # 0
    /\ heap[result]._version.pre = <<BETA_SEGMENT, 1>>

\* What the method named name, called on o with version_bump b, returns.
TupleOfCall(name, o, b) ==
    CASE name = "next_dev" -> TupleOf(next_dev(<<o>>, 1, b))
      [] name = "next_alpha" -> TupleOf(next_alpha(<<o>>, 1, b))
      [] name = "next_beta" -> TupleOf(next_beta(<<o>>, 1, b))
      [] name = "next_release_candidate" ->
             TupleOf(next_release_candidate(<<o>>, 1, b))

\* C7: next_alpha, next_beta, next_release_candidate and next_dev with a
\* valid version_bump B return the release of next_B when the version has no
\* pre, post or dev segment; otherwise they return the version's own release
\* and the same version whatever B is: the one the default, micro, gives.
C7_BumpOnlyFinal ==
    (method \in BumpMethods /\ version_bump \in ValidBumps) =>
        /\ result # 0
        /\ ~HasSuffix(before) =>
              heap[result]._version.release =
                 TupleOfNext(before, version_bump).release
        /\ HasSuffix(before) =>
              /\ heap[result]._version.release = before._version.release
              /\ version_bump # VERSION_MICRO =>
                    TupleOfCall(method, before, VERSION_MICRO)
                       = heap[result]._version

\* next_alpha with the minor bump called on a final release.
C7_Witness ==
    /\ method = "next_alpha"
    /\ version_bump = VERSION_MINOR
    /\ ~HasSuffix(before)
    /\ result # 0
    /\ heap[result]._version.release =
          <<major(before), minor(before) + 1, 0>>

\* C8: a version returned by a transition, after any number of transitions,
\* has no post and no local.
C8_NoPostNoLocal ==
    /\ Transitioned =>
          /\ heap[result]._version.post = None
          /\ heap[result]._version.local = None
    /\ derived =>
          /\ heap[self]._version.post = None
          /\ heap[self]._version.local = None

\* A transition called on the result of a transition, in a sequence that
\* started from a version with a post-release or a local label.
C8_Witness ==
    /\ origin = "post_or_local"
    /\ derived
    /\ Transitioned

\* C9, as stated: is_release is true exactly when pre, post, dev and local
\* are all absent.
C9_IsReleaseAllAbsent ==
    method = "is_release" =>
        (answer <=> (/\ heap[self]._version.pre = None
                     /\ heap[self]._version.post = None
                     /\ heap[self]._version.dev = None
                     /\ heap[self]._version.local = None))

\* C9, amended: is_release is true exactly when pre, post and dev are all
\* absent, whether or not the version has a local label.
C9_IsReleaseNoSuffix ==
    method = "is_release" => (answer <=> ~HasSuffix(heap[self]))

\* is_release read on a version with a local label, and true.
C9_Witness ==
    /\ method = "is_release"
    /\ answer
    /\ heap[self]._version.local # None

\* C10: a copy is another object with the same named tuple and the same key;
\* every call, returning or raising, leaves the fields, the rendering and the
\* key of the version it was called on as they were, and a transition returns
\* another object.
C10_CopyIndependence ==
    /\ method = "copy" =>
          /\ result # 0
          /\ result # self
          /\ heap[result]._version = heap[self]._version
          /\ heap[result]._key = heap[self]._key
    /\ method # "Version" =>
          /\ heap[self]._version = before._version
          /\ heap[self]._key = before._key
          /\ str(heap[self]) = str(before)
    /\ Transitioned => result # self

\* next_major returned another object with another tuple, and the version
\* it was called on is as it was.
C10_Witness ==
    /\ method = "next_major"
    /\ result # 0
    /\ result # self
    /\ heap[result]._version # heap[self]._version
    /\ heap[self] = before

\* C11, as stated: the version a transition returns has a release of exactly
\* three components.
C11_ThreeComponents ==
    Transitioned => Len(heap[result]._version.release) = 3

\* C11, amended: next_major, next_minor and next_micro return a release of
\* three components, and so do next_alpha, next_beta, next_release_candidate
\* and next_dev called on a version without pre, post or dev segment; called
\* on a version with one, these four return the version's own release, as
\* long or as short as it is.
C11_ThreeOrKept ==
    Transitioned =>
        IF method \in {"next_major", "next_minor", "next_micro"}
           \/ ~HasSuffix(before)
        THEN Len(heap[result]._version.release) = 3
        ELSE heap[result]._version.release = before._version.release

\* next_alpha called on a pre-release with a release of two components
\* returns a release of two components.
C11_Witness ==
    /\ method = "next_alpha"
    /\ before._version.pre # None
    /\ Len(before._version.release) = 2
    /\ result # 0
    /\ Len(heap[result]._version.release) = 2

\* C12: a cycle started on a version without pre, post or dev segment by
\* next_alpha, next_beta, next_release_candidate or next_dev with
\* version_bump B, and carried on by any calls of these four, is finished by
\* next_B with exactly the version next_B returned on the version the cycle
\* started from.
C12_FinalisationConsistency ==
    (cycle.bump # "none" /\ method = NextOf(cycle.bump)) =>
        /\ result # 0
        /\ heap[result]._version = cycle.final

\* A cycle started with minor, made of two calls or more, finished by
\* next_minor.
C12_Witness ==
    /\ cycle.bump = VERSION_MINOR
    /\ cycle.steps = 2
    /\ method = "next_minor"
    /\ result # 0
    /\ heap[result]._version = cycle.final

====
